---- MODULE Spec2Model ----
(***************************************************************************)
(* A model of the analysis pipeline of ai_code_reviewer: the RateLimiter   *)
(* and CodeAnalyzer of code_analyzer.py, the persistence of a review in    *)
(* app.py (perform_code_review) over the tables of models.py, and the chat *)
(* history of app.py (render_chat_interface).                              *)
(*                                                                         *)
(* Python values are tagged records: [t |-> "dict", d |-> f] with f a      *)
(* function from string keys, [t |-> "list", l |-> seq], [t |-> "num",     *)
(* n |-> i], [t |-> "str", s |-> seq of characters], [t |-> "bool",        *)
(* b |-> TRUE], [t |-> "null"].                                            *)
(***************************************************************************)
EXTENDS Integers, Sequences, FiniteSets, TLC

VARIABLES
    clock,          \* time.time(), in seconds
    calls,          \* RateLimiter.calls: the recorded call timestamps
    released,       \* the times at which wait_if_needed returned, last window only
    threads,        \* the threads that share the limiter: where each is in wait_if_needed
    recorded,       \* the timestamps that calls made by the threads have appended
    reply,          \* what the backend does for the analyze_code call under way
    result,         \* what analyze_code did: the value returned or the exception raised
    reviews,        \* the rows of table codereviews, in order of creation
    issueRows,      \* the rows of table issues
    metricRows,     \* the rows of table metrics
    historyRows,    \* the rows of table reviewhistory
    recent,         \* the latest get_recent_reviews query: its limit and the rows returned
    lastCall,       \* the latest perform_code_review call: its outcome and return value
    cache,          \* the lru_cache of _get_cached_analysis, least recently used first
    pc,             \* where the analyzer is: "idle" or in the retry loop ("attempt")
    cur,            \* the cached call under way: its key, attempt and backend calls so far
    log,            \* the finished analyze_security / analyze_quality calls, in order
    trace,          \* what the latest analyzer operation did: its waits, backend calls, sleeps
    last,           \* the latest analyzer operation: its name and what it returned or raised
    chat_history,   \* st.session_state.chat_history
    sanitized       \* a call of sanitize_filename: its arguments and what it returned

vars == <<clock, calls, released, threads, recorded, reply, result, reviews, issueRows, metricRows,
          historyRows, recent, lastCall,
          cache, pc, cur, log, trace, last, chat_history, sanitized>>

rlVars == <<clock, calls, released, threads, recorded>>
anVars == <<reply, result>>
rvVars == <<reviews, issueRows, metricRows, historyRows, recent, lastCall>>
caVars == <<cache, pc, cur, log, trace, last>>
chVars == <<chat_history>>
utVars == <<sanitized>>

NoCur == [key |-> <<"", "">>, attempt |-> 0, backend |-> 0]

(***************************************************************************)
(* RateLimiter (code_analyzer.py 16-31)                                    *)
(***************************************************************************)

\* The length of the rate window in seconds (the literal 60 of wait_if_needed).
Window == 60

\* RateLimiter.calls_per_minute, as configured at construction.
CallsPerMinute == 2

\* The model stops the clock here.
MaxClock == 130

\* How long after the previous call returned the next caller arrives.
ArrivalGaps == {0, 1, 30, 59, 60}

\* An eviction that keeps a timestamp of exactly 60 seconds ago.
EvictOlderOnly(cs, now) == SelectSeq(cs, LAMBDA c : now - c <= Window)

\* self.calls = [call for call in self.calls if now - call < 60]
Evict(cs, now) == SelectSeq(cs, LAMBDA c : now - c < Window)

\* sleep_time = 60 - (now - self.calls[0]), slept only when the window is full
\* and the amount is positive
SleepTime(cs, now) ==
    IF Len(cs) >= CallsPerMinute
    THEN IF Window - (now - cs[1]) > 0 THEN Window - (now - cs[1]) ELSE 0
    ELSE 0

\* The timestamp wait_if_needed appends: now, read on entry.
RecordedStamp(now, sleep) == now

\* wait_if_needed entered at now, followed by a sleep of extra seconds by the
\* caller: the stamp is appended and the clock moves to the end of the sleeps.
LimiterStep(now, extra) ==
    LET kept  == Evict(calls, now)
        sleep == SleepTime(kept, now)
        out   == now + sleep
    IN  /\ out + extra <= MaxClock
        /\ calls' = Append(kept, RecordedStamp(now, sleep))
        /\ clock' = out + extra
        /\ released' = Append(SelectSeq(released, LAMBDA r : out - r < Window), out)
        /\ UNCHANGED <<threads, recorded>>

\* One call of wait_if_needed by a caller arriving gap seconds after the previous
\* call returned; the caller is released when the sleep ends.
WaitIfNeeded(gap) ==
    /\ LimiterStep(clock + gap, 0)
    /\ UNCHANGED <<anVars, utVars, rvVars, caVars, chVars>>

\* The threads that call wait_if_needed of one limiter, as the two workers of
\* analyze_async would.
Threads == {1, 2}

\* The most calls one thread makes.
MaxThreadCalls == 2

\* A thread outside wait_if_needed with n calls left to make.
Outside(n) == [at |-> "outside", now |-> 0, kept |-> << >>, wake |-> 0, left |-> n]

RLInit ==
    /\ clock = 0
    /\ calls = << >>
    /\ released = << >>
    /\ threads = [t \in Threads |-> Outside(MaxThreadCalls)]
    /\ recorded = << >>

RLNext == \E gap \in ArrivalGaps : WaitIfNeeded(gap)

(***************************************************************************)
(* wait_if_needed called by two threads. The method takes no lock, so its  *)
(* statements interleave: each action is one statement of one thread.      *)
(***************************************************************************)

\* The frame of a thread's step.
ThreadFrame == UNCHANGED <<anVars, utVars, rvVars, caVars, chVars>>

\* now = time.time()
Enter(t) ==
    /\ threads[t].at = "outside"
    /\ threads[t].left > 0
    /\ threads' = [threads EXCEPT ![t].at = "filter", ![t].now = clock]
    /\ UNCHANGED <<clock, calls, released, recorded>>
    /\ ThreadFrame

\* The list comprehension of line 24 builds a new list from self.calls.
Filter(t) ==
    /\ threads[t].at = "filter"
    /\ threads' = [threads EXCEPT ![t].at = "assign",
                                  ![t].kept = Evict(calls, threads[t].now)]
    /\ UNCHANGED <<clock, calls, released, recorded>>
    /\ ThreadFrame

\* self.calls = that list
Assign(t) ==
    /\ threads[t].at = "assign"
    /\ calls' = threads[t].kept
    /\ threads' = [threads EXCEPT ![t].at = "check", ![t].kept = << >>]
    /\ UNCHANGED <<clock, released, recorded>>
    /\ ThreadFrame

\* The if statement of lines 26-29: the thread goes to sleep, or goes on.
Check(t) ==
    /\ threads[t].at = "check"
    /\ threads' = IF SleepTime(calls, threads[t].now) > 0
                  THEN [threads EXCEPT ![t].at = "sleep",
                                       ![t].wake = clock + SleepTime(calls, threads[t].now)]
                  ELSE [threads EXCEPT ![t].at = "append"]
    /\ UNCHANGED <<clock, calls, released, recorded>>
    /\ ThreadFrame

\* time.sleep(sleep_time) returns.
Wake(t) ==
    /\ threads[t].at = "sleep"
    /\ clock >= threads[t].wake
    /\ threads' = [threads EXCEPT ![t].at = "append", ![t].wake = 0]
    /\ UNCHANGED <<clock, calls, released, recorded>>
    /\ ThreadFrame

\* self.calls.append(now), and the return to the caller.
AppendStamp(t) ==
    /\ threads[t].at = "append"
    /\ calls' = Append(calls, RecordedStamp(threads[t].now, 0))
    /\ recorded' = Append(recorded, RecordedStamp(threads[t].now, 0))
    /\ released' = Append(SelectSeq(released, LAMBDA r : clock - r < Window), clock)
    /\ threads' = [threads EXCEPT ![t] = Outside(threads[t].left - 1)]
    /\ UNCHANGED clock
    /\ ThreadFrame

\* The threads inside wait_if_needed that are asleep, and those that are not.
Asleep  == {t \in Threads : threads[t].at = "sleep"}
Running == {t \in Threads : threads[t].at \notin {"outside", "sleep"}}

\* Time passes while no thread is running: to the first wake-up of a sleeping
\* thread, or for a minute when no thread is inside.
Pass ==
    /\ Running = {}
    /\ IF Asleep # {}
       THEN /\ \A t \in Asleep : clock < threads[t].wake
            /\ clock' = CHOOSE w \in {threads[t].wake : t \in Asleep} :
                            \A t \in Asleep : w <= threads[t].wake
       ELSE /\ clock + Window <= MaxClock
            /\ clock' = clock + Window
    /\ UNCHANGED <<calls, released, threads, recorded>>
    /\ ThreadFrame

ThNext ==
    \/ \E t \in Threads : Enter(t)
    \/ \E t \in Threads : Filter(t)
    \/ \E t \in Threads : Assign(t)
    \/ \E t \in Threads : Check(t)
    \/ \E t \in Threads : Wake(t)
    \/ \E t \in Threads : AppendStamp(t)
    \/ Pass

(***************************************************************************)
(* Python values and exceptions                                            *)
(***************************************************************************)

Null       == [t |-> "null"]
Num(i)     == [t |-> "num", n |-> i]
Bool(b)    == [t |-> "bool", b |-> b]
Str(chars) == [t |-> "str", s |-> chars]
List(seq)  == [t |-> "list", l |-> seq]
Dict(f)    == [t |-> "dict", d |-> f]

\* A key that a dict built by MkDict leaves out.
Absent == [t |-> "absent"]

\* The dict holding the keys of f whose value is not Absent.
MkDict(f) == Dict([k \in {x \in DOMAIN f : f[x] # Absent} |-> f[k]])

EmptyDict == Dict(<< >>)
EmptyList == List(<< >>)

\* Characters of a text: whitespace, an ordinary character, a whole well-formed
\* JSON document (its value v), and a literal fragment of a message.
Ws     == [c |-> "ws"]
Ch(i)  == [c |-> "ch", i |-> i]
Doc(v) == [c |-> "doc", v |-> v]
Lit(s) == [c |-> "lit", s |-> s]

\* What a call does: it returns a value or raises an exception carrying str(e).
Return(v)     == [outcome |-> "return", value |-> v]
Raise(e, msg) == [outcome |-> "raise", exc |-> e, msg |-> msg]

\* The classes an exception class derives from (itself included).
Bases(e) ==
    CASE e = "JSONDecodeError" -> {"JSONDecodeError", "ValueError", "Exception"}
      [] OTHER                 -> {e, "Exception"}

\* d.get(key, default): a method of dict only.
PyGet(d, key, default) ==
    IF d.t # "dict"
    THEN Raise("AttributeError", <<Lit("object has no attribute 'get'")>>)
    ELSE Return(IF key \in DOMAIN d.d THEN d.d[key] ELSE default)

RECURSIVE LStrip(_)
LStrip(text) ==
    IF text # << >> /\ Head(text) = Ws THEN LStrip(Tail(text)) ELSE text

RECURSIVE RStrip(_)
RStrip(text) ==
    IF text # << >> /\ text[Len(text)] = Ws
    THEN RStrip(SubSeq(text, 1, Len(text) - 1))
    ELSE text

\* str.strip()
Strip(text) == RStrip(LStrip(text))

\* text[:n]
Prefix(text, n) == SubSeq(text, 1, IF Len(text) < n THEN Len(text) ELSE n)

\* json.loads(text): the text is one JSON document, or the load raises.
JsonLoads(text) ==
    IF Len(Strip(text)) = 1 /\ Strip(text)[1].c = "doc"
    THEN Return(Strip(text)[1].v)
    ELSE Raise("JSONDecodeError", <<Lit("Expecting value")>>)

(***************************************************************************)
(* The backend's replies                                                   *)
(***************************************************************************)

\* The most issues (and suggestions) a reply lists.
MaxIssues == 2

\* The number of reply characters an error message quotes (response_text[:100]).
SnippetLen == 100

\* The metric values a reply carries: below, inside and above 0..100.
MetricValues == {-1, 40, 101}

IssueObjects ==
    { MkDict([severity |-> sev, description |-> Str(<<Lit("issue")>>), line_number |-> line]) :
        sev \in {Absent, Str(<<Lit("HIGH")>>)}, line \in {Absent, Num(0), Num(3)} }

SeqsUpTo(S, n) == UNION { [1..k -> S] : k \in 0..n }

IssuesFields == {Absent, Null} \cup { List(l) : l \in SeqsUpTo(IssueObjects, MaxIssues) }

MetricsObjects ==
    { MkDict([complexity |-> c, maintainability |-> m, security_score |-> s]) :
        c \in {Absent} \cup { Num(v) : v \in MetricValues },
        m \in {Absent} \cup { Num(v) : v \in MetricValues },
        s \in {Absent} \cup { Num(v) : v \in MetricValues } }

MetricsFields == {Absent, Null, EmptyList, Num(7)} \cup MetricsObjects

SuggestionsFields ==
    {Absent, EmptyList,
     List(<<MkDict([title |-> Str(<<Lit("t")>>), priority |-> Str(<<Lit("LOW")>>)])>>)}

SummaryFields == {Absent, Str(<<Lit("summary")>>)}

\* The JSON objects a reply may hold: any subset of the fields, any shape of each.
JsonObjects ==
    { MkDict([issues |-> i, metrics |-> m, suggestions |-> s, summary |-> u]) :
        i \in IssuesFields, m \in MetricsFields,
        s \in SuggestionsFields, u \in SummaryFields }

\* JSON documents that are no object.
JsonNonObjects == {Null, Num(5), Str(<<Lit("text")>>), EmptyList, List(<<EmptyDict>>)}

\* n ordinary characters, each told apart by its place.
Chars(n) == [i \in 1..n |-> Ch(i)]

\* Texts that are no JSON: nothing, prose shorter and longer than the quoted
\* snippet, with and without surrounding whitespace, and a document followed by
\* further text.
NonJsonTexts ==
    { lead \o Chars(n) \o trail :
        lead \in {<< >>, <<Ws>>}, trail \in {<< >>, <<Ws>>},
        n \in {0, 1, SnippetLen - 1, SnippetLen, SnippetLen + 1, SnippetLen + 2} }
    \cup { <<Doc(EmptyDict)>> \o Chars(n) : n \in {1, SnippetLen} }

JsonTexts ==
    { <<Doc(v)>> : v \in JsonObjects \cup JsonNonObjects }
    \cup { <<Ws, Doc(v), Ws>> : v \in {EmptyDict, EmptyList} }

\* What the backend call does: it raises (transport failure), or delivers a
\* completion whose content is None or a text.
Replies ==
    {[k |-> "raise"], [k |-> "none"]}
    \cup { [k |-> "text", text |-> x] : x \in JsonTexts \cup NonJsonTexts }

(***************************************************************************)
(* CodeAnalyzer.analyze_code (code_analyzer.py 279-365)                    *)
(***************************************************************************)

\* completion = self.client.chat.completions.create(...)
Create(r) ==
    IF r.k = "raise"
    THEN Raise("APIError", <<Lit("Connection error.")>>)
    ELSE Return(r)

\* response_text = completion.choices[0].message.content.strip()
ResponseText(r) ==
    IF r.k = "none"
    THEN Raise("AttributeError", <<Lit("'NoneType' object has no attribute 'strip'")>>)
    ELSE Return(Strip(r.text))

\* {"success": True, "analysis": analysis}
Success(analysis) == Dict([k \in {"success", "analysis"} |->
                            IF k = "success" THEN Bool(TRUE) ELSE analysis])

\* {"success": False, "error": message}
Failure(message) == Dict([k \in {"success", "error"} |->
                            IF k = "success" THEN Bool(FALSE) ELSE Str(message)])

\* The value of one metric in the repaired analysis:
\* analysis.get("metrics", {}).get(name, 50)
MetricOf(analysis, name) ==
    LET m == PyGet(analysis, "metrics", EmptyDict)
    IN  IF m.outcome = "raise" THEN m ELSE PyGet(m.value, name, Num(50))

\* The keys of the analysis that analyze_code builds.
AnalysisKeys == {"issues", "metrics", "suggestions"}

\* "Ensure required sections exist with defaults": the dict literal of lines 340-348,
\* its entries evaluated in order.
Repair(analysis) ==
    LET i == PyGet(analysis, "issues", EmptyList)
        c == MetricOf(analysis, "complexity")
        m == MetricOf(analysis, "maintainability")
        s == MetricOf(analysis, "security_score")
        g == PyGet(analysis, "suggestions", EmptyList)
    IN  IF i.outcome = "raise" THEN i
        ELSE IF c.outcome = "raise" THEN c
        ELSE IF m.outcome = "raise" THEN m
        ELSE IF s.outcome = "raise" THEN s
        ELSE IF g.outcome = "raise" THEN g
        ELSE Return(Dict([k \in AnalysisKeys |->
                CASE k = "issues"      -> i.value
                  [] k = "metrics"     -> Dict([n \in {"complexity", "maintainability",
                                                       "security_score"} |->
                                                  CASE n = "complexity"      -> c.value
                                                    [] n = "maintainability" -> m.value
                                                    [] OTHER                 -> s.value])
                  [] OTHER             -> g.value]))

\* The body of the inner try: parse, check the shape, repair, build the result.
ParseAndRepair(response_text) ==
    LET parsed == JsonLoads(response_text)
    IN  IF parsed.outcome = "raise" THEN parsed
        ELSE IF parsed.value.t # "dict"
        THEN Raise("ValueError", <<Lit("Analysis must be a dictionary")>>)
        ELSE LET repaired == Repair(parsed.value)
             IN  IF repaired.outcome = "raise" THEN repaired
                 ELSE Return(Success(repaired.value))

\* The message quoting the whole response_text.
SnippetUncut(response_text) == response_text

\* response_text[:100]
Snippet(response_text) == Prefix(response_text, SnippetLen)

\* f"Invalid JSON response: {str(e)}\nResponse was: {response_text[:100]}..."
DecodeErrorMessage(e, response_text) ==
    <<Lit("Invalid JSON response: ")>> \o e.msg \o <<Lit("\nResponse was: ")>>
        \o Snippet(response_text) \o <<Lit("...")>>

\* except json.JSONDecodeError
InnerCatches(exc) == "JSONDecodeError" \in Bases(exc)

\* The outer handler written as "except ValueError".
OuterCatchesValueErrorOnly(exc) == "ValueError" \in Bases(exc)

\* except Exception
OuterCatches(exc) == "Exception" \in Bases(exc)

\* The inner try statement (lines 331-359).
InnerTry(response_text) ==
    LET body == ParseAndRepair(response_text)
    IN  IF body.outcome = "raise" /\ InnerCatches(body.exc)
        THEN Return(Failure(DecodeErrorMessage(body, response_text)))
        ELSE body

\* The body of the outer try (lines 282-359).
OuterBody(r) ==
    LET completion == Create(r)
    IN  IF completion.outcome = "raise" THEN completion
        ELSE LET text == ResponseText(completion.value)
             IN  IF text.outcome = "raise" THEN text ELSE InnerTry(text.value)

\* analyze_code(code) when the backend does r.
AnalyzeCode(r) ==
    LET body == OuterBody(r)
    IN  IF body.outcome = "raise" /\ OuterCatches(body.exc)
        THEN Return(Failure(body.msg))
        ELSE body

NoReply  == [k |-> "idle"]
NoResult == [outcome |-> "none"]

AnIdle == reply = NoReply /\ result = NoResult

\* A call of analyze_code is under way and the backend will do reply.
AnInit == reply \in Replies /\ result = NoResult

\* analyze_code runs to its end.
Analyze ==
    /\ reply # NoReply
    /\ result = NoResult
    /\ result' = AnalyzeCode(reply)
    /\ UNCHANGED <<reply, rlVars, rvVars, caVars, chVars, utVars>>

AnNext == Analyze

(***************************************************************************)
(* perform_code_review (app.py 36-74) over the tables of models.py         *)
(***************************************************************************)

\* The most reviews the model stores.
MaxReviews == 3

\* The code snippets submitted.
Codes == {"code1", "code2"}

\* What the backend does for the analyze_code call of a review.
ReviewReplies ==
    {[k |-> "raise"]}
    \cup { [k |-> "text", text |-> x] :
            x \in { Chars(1),
                    <<Doc(EmptyDict)>>,
                    <<Doc(MkDict([metrics |-> Null]))>>,
                    <<Doc(MkDict([issues  |-> List(<<MkDict([severity    |-> Str(<<Lit("HIGH")>>),
                                                             description |-> Str(<<Lit("issue")>>),
                                                             line_number |-> Num(1)])>>),
                                  metrics |-> MkDict([complexity      |-> Num(10),
                                                      maintainability |-> Num(40),
                                                      security_score  |-> Num(20)])]))>>,
                    <<Doc(MkDict([issues  |-> List(<<MkDict([description |-> Str(<<Lit("issue")>>),
                                                             line_number |-> Num(0)])>>)]))>> } }

\* Where a write to the database raises (a storage failure): nowhere, at
\* db.connect, at CodeReview.create, at the i-th Issue.create, at Metrics.create.
NoFail      == [at |-> "none", i |-> 0]
FailPoints ==
    { [at |-> a, i |-> 0] : a \in {"none", "connect", "review", "metrics"} }
    \cup { [at |-> "issue", i |-> i] : i \in 1..MaxIssues }

\* d[key]: KeyError when the key is missing, TypeError when d is no dict.
PyItem(d, key) ==
    IF d.t # "dict" THEN Raise("TypeError", <<Lit("not subscriptable")>>)
    ELSE IF key \notin DOMAIN d.d THEN Raise("KeyError", <<Lit(key)>>)
    ELSE Return(d.d[key])

\* The issues the loop of lines 55-61 iterates over: analysis.get('issues', []).
IssuesToSave(analysis) == PyGet(analysis, "issues", EmptyList)

\* The row Issue.create writes for one issue (lines 56-61), or what it raises.
IssueRow(review, issue) ==
    LET sev  == PyItem(issue, "severity")
        desc == PyItem(issue, "description")
        line == PyGet(issue, "line_number", Num(0))
    IN  IF sev.outcome = "raise" THEN sev
        ELSE IF desc.outcome = "raise" THEN desc
        ELSE IF line.outcome = "raise" THEN line
        ELSE Return([review |-> review, severity |-> sev.value,
                     description |-> desc.value, line_number |-> line.value])

\* One metric of the row Metrics.create writes:
\* analysis.get('metrics', {}).get(name, 0)
MetricToSave(analysis, name) ==
    LET m == PyGet(analysis, "metrics", EmptyDict)
    IN  IF m.outcome = "raise" THEN m ELSE PyGet(m.value, name, Num(0))

\* The row Metrics.create writes (lines 64-69), or what it raises.
MetricsRow(review, analysis) ==
    LET c == MetricToSave(analysis, "complexity")
        m == MetricToSave(analysis, "maintainability")
        s == MetricToSave(analysis, "security_score")
    IN  IF c.outcome = "raise" THEN c
        ELSE IF m.outcome = "raise" THEN m
        ELSE IF s.outcome = "raise" THEN s
        ELSE Return([review |-> review, complexity |-> c.value,
                     maintainability |-> m.value, security_score |-> s.value])

\* The status CodeReview.create is given (line 50).
CreatedStatus(analysis) == "COMPLETED"

\* The issues of items[1..n] whose Issue.create succeeds before the first one
\* that raises: the count of rows written by the loop.
RECURSIVE IssuesWritten(_, _, _, _)
IssuesWritten(review, items, i, fail) ==
    IF i > Len(items) THEN << >>
    ELSE IF (fail.at = "issue" /\ fail.i = i) \/ IssueRow(review, items[i]).outcome = "raise"
    THEN << >>
    ELSE <<IssueRow(review, items[i]).value>> \o IssuesWritten(review, items, i + 1, fail)

\* The writes of lines 45-69 for the value analyze_code returned. get_connection
\* opens no transaction, so every create is committed as it is executed and an
\* exception undoes nothing; the handler catches it and returns None.
SaveReview(code, analysis, items, mrow, fail) ==
    LET id       == Len(reviews) + 1
        today    == clock'
        iterable == items.outcome = "return" /\ items.value.t = "list"
        written  == IF iterable THEN IssuesWritten(id, items.value.l, 1, fail) ELSE << >>
        stored   == /\ iterable
                    /\ Len(written) = Len(items.value.l)
                    /\ fail.at # "metrics"
                    /\ mrow.outcome = "return"
    IN  IF fail.at \in {"connect", "review"}
        THEN /\ UNCHANGED <<reviews, issueRows, metricRows>>
             /\ lastCall' = [outcome |-> "failed", review |-> id,
                             analysis |-> analysis, returned |-> Null]
        ELSE /\ reviews' = Append(reviews,
                                [id |-> id, file_name |-> "code_snippet.py",
                                 code_content |-> code, status |-> CreatedStatus(analysis),
                                 review_date |-> today])
             /\ issueRows' = issueRows \o written
             /\ metricRows' = IF stored THEN Append(metricRows, mrow.value) ELSE metricRows
             /\ lastCall' = [outcome  |-> IF stored THEN "stored" ELSE "failed",
                             review   |-> id,
                             analysis |-> analysis,
                             returned |-> IF stored THEN analysis ELSE Null]

\* The latest date at which perform_code_review is called: time passes from one
\* call to the next, so that datetime.datetime.now() of line 51 differs from
\* review to review.
MaxDate == 3

\* perform_code_review(code) when the backend does r and the storage fails at fail:
\* analysis = analyzer.analyze_code(code), then the writes.
PerformCodeReview(code, r, fail) ==
    /\ Len(reviews) < MaxReviews
    /\ clock < MaxDate
    /\ clock' = clock + 1
    /\ UNCHANGED <<calls, released, threads, recorded, anVars, utVars, caVars, chVars>>
    /\ UNCHANGED <<historyRows, recent>>
    /\ \E call \in {AnalyzeCode(r)} :
          IF call.outcome = "raise"
          THEN /\ UNCHANGED <<reviews, issueRows, metricRows>>
               /\ lastCall' = [outcome |-> "failed", review |-> Len(reviews) + 1,
                               analysis |-> Null, returned |-> Null]
          ELSE SaveReview(code, call.value, IssuesToSave(call.value),
                          MetricsRow(Len(reviews) + 1, call.value), fail)

NoCall == [outcome |-> "none"]

(***************************************************************************)
(* get_recent_reviews (models.py 78-84)                                    *)
(***************************************************************************)

\* The limits asked for.
Limits == 1..(MaxReviews + 1)

\* The order without .desc().
BeforeAscending(a, b) == a.review_date < b.review_date

\* The order of .order_by(CodeReview.review_date.desc()): a comes before b.
Before(a, b) == a.review_date > b.review_date

\* rows with row put at its place in the order.
RECURSIVE InsertSorted(_, _)
InsertSorted(row, rows) ==
    IF rows = << >> THEN <<row>>
    ELSE IF Before(row, Head(rows)) THEN <<row>> \o rows
    ELSE <<Head(rows)>> \o InsertSorted(row, Tail(rows))

\* The rows of a table in the order of the query.
RECURSIVE Ordered(_)
Ordered(rows) ==
    IF rows = << >> THEN << >> ELSE InsertSorted(Head(rows), Ordered(Tail(rows)))

\* list(CodeReview.select().order_by(CodeReview.review_date.desc()).limit(limit))
RecentReviews(table, limit) == Prefix(Ordered(table), limit)

\* get_recent_reviews(limit): a read of the table; at is the number of reviews
\* the table held.
GetRecentReviews(limit) ==
    /\ recent' = [limit |-> limit, at |-> Len(reviews),
                  rows |-> RecentReviews(reviews, limit)]
    /\ UNCHANGED <<reviews, issueRows, metricRows, historyRows, lastCall>>
    /\ UNCHANGED <<rlVars, anVars, utVars, caVars, chVars>>

NoQuery == [limit |-> 0, at |-> 0, rows |-> << >>]

RvInit ==
    /\ reviews = << >>
    /\ issueRows = << >>
    /\ metricRows = << >>
    /\ historyRows = << >>
    /\ recent = NoQuery
    /\ lastCall = NoCall

RvNext ==
    \/ \E code \in Codes, r \in ReviewReplies, fail \in FailPoints :
          PerformCodeReview(code, r, fail)
    \/ \E limit \in Limits : GetRecentReviews(limit)

(***************************************************************************)
(* analyze_security / analyze_quality: the cache and the retry loop        *)
(* (code_analyzer.py 166-216)                                              *)
(***************************************************************************)

\* max_retries of _analyze_with_retry.
MaxRetries == 3

\* maxsize of the lru_cache around _get_cached_analysis.
CacheMaxsize == 100

\* The most public calls the model follows.
MaxCalls == 4

AnalysisTypes == {"security", "quality"}

\* A replacement field {name} of a str.format template.
Field(name) == [c |-> "field", name |-> name]

\* self.security_prompt (lines 60-88), self.code_quality_prompt (90-123) and
\* self.quick_analysis_prompt (138-163): text, the field {code}, text, and the
\* JSON example of the reply, written with single braces, so that its opening
\* brace starts a second replacement field (named by the text up to the colon).
SecurityPrompt ==
    <<Lit("You are a code security expert."), Field("code"),
      Lit("Provide a JSON response with the following structure:"),
      Field("vulnerabilities"), Lit("Return ONLY the JSON response, nothing else.")>>
QualityPrompt ==
    <<Lit("You are a code quality expert."), Field("code"),
      Lit("Provide a JSON response with the following structure:"),
      Field("issues"), Lit("Return ONLY the JSON response, nothing else.")>>
QuickPrompt ==
    <<Lit("Analyze this code snippet quickly and provide immediate feedback:"),
      Field("code"), Lit("Return a JSON response with this structure:"),
      Field("suggestions"), Lit("Return ONLY the JSON response.")>>

PromptOf(type) == IF type = "security" THEN SecurityPrompt ELSE QualityPrompt

\* template.format(**kwargs): every field is looked up in kwargs, from left to
\* right, and the first one that kwargs does not name raises KeyError.
RECURSIVE Format(_, _)
Format(template, kwargs) ==
    IF template = << >> THEN Return(<< >>)
    ELSE IF Head(template).c = "field" /\ Head(template).name \notin DOMAIN kwargs
    THEN Raise("KeyError", <<Lit(Head(template).name)>>)
    ELSE IF Format(Tail(template), kwargs).outcome = "raise"
    THEN Format(Tail(template), kwargs)
    ELSE Return(<<IF Head(template).c = "field"
                  THEN Lit(kwargs[Head(template).name])
                  ELSE Head(template)>> \o Format(Tail(template), kwargs).value)

VulnDoc   == MkDict([vulnerabilities |-> List(<<MkDict([type |-> Str(<<Lit("CODE_EXECUTION")>>)])>>)])
NoVulnDoc == MkDict([vulnerabilities |-> EmptyList])
IssuesDoc == MkDict([issues |-> EmptyList, metrics |-> EmptyDict])

\* What the backend does for one attempt: it raises, or delivers prose, or a
\* JSON document (an object of either schema, or a list).
AttemptReplies ==
    {[k |-> "raise"]}
    \cup { [k |-> "text", text |-> x] :
            x \in {Chars(1), <<Doc(VulnDoc)>>, <<Doc(NoVulnDoc)>>, <<Doc(IssuesDoc)>>,
                   <<Doc(EmptyList)>>} }

\* One attempt of _analyze_with_retry (lines 177-184): the backend call and
\* json.loads of its content.
AttemptResult(r) ==
    IF r.k = "raise" THEN Raise("APIError", <<Lit("Connection error.")>>)
    ELSE JsonLoads(r.text)

\* A sleep of one second after every failed attempt.
BackoffConstant(attempt) == 1

\* time.sleep(2 ** attempt): the backoff after a failed attempt that is not the last.
RECURSIVE Backoff(_)
Backoff(attempt) == IF attempt = 0 THEN 1 ELSE 2 * Backoff(attempt - 1)

\* CodeMetrics.calculate_complexity(code), a dict of four counts.
CodeMetricsOf(code) == MkDict([lines |-> Num(1), functions |-> Num(0),
                               classes |-> Num(0), comments |-> Num(0)])

\* result["code_metrics"] = ...: item assignment, a TypeError unless result is a dict
\* (a list takes integer indices only).
WithCodeMetrics(value, code) ==
    IF value.t # "dict"
    THEN Raise("TypeError", <<Lit("indices must be integers")>>)
    ELSE Return(Dict([k \in DOMAIN value.d \cup {"code_metrics"} |->
                        IF k = "code_metrics" THEN CodeMetricsOf(code) ELSE value.d[k]]))

SecurityFallback == MkDict([vulnerabilities |-> EmptyList])
QualityFallback  == MkDict([issues |-> EmptyList, metrics |-> EmptyDict,
                            code_metrics |-> EmptyDict])

\* The try statement of the internal method raises when the retry loop raised
\* and, in the quality method, when the item assignment does.
InternalFails(type, code, outcome) ==
    \/ outcome.outcome = "raise"
    \/ type = "quality" /\ WithCodeMetrics(outcome.value, code).outcome = "raise"

\* What _analyze_security_internal / _analyze_quality_internal return when
\* _analyze_with_retry ended with outcome (a value returned, or the last error raised).
InternalResult(type, code, outcome) ==
    IF type = "security"
    THEN IF outcome.outcome = "raise" THEN SecurityFallback ELSE outcome.value
    ELSE IF outcome.outcome = "raise" THEN QualityFallback
         ELSE IF WithCodeMetrics(outcome.value, code).outcome = "raise" THEN QualityFallback
         ELSE WithCodeMetrics(outcome.value, code).value

\* A lookup that never finds the key.
CacheIndexNever(key) == 0

\* The cache is the list of its entries, least recently used first.
CacheIndex(key) ==
    IF \E i \in 1..Len(cache) : cache[i].key = key
    THEN CHOOSE i \in 1..Len(cache) : cache[i].key = key
    ELSE 0

\* A hit that leaves the entry where it is.
TouchInPlace(c, i) == c

\* A hit moves the entry to the most recently used end.
Touch(c, i) == SubSeq(c, 1, i - 1) \o SubSeq(c, i + 1, Len(c)) \o <<c[i]>>

\* A miss that stores nothing.
InsertNothing(c, key, value) == c

\* A miss stores the result, evicting the least recently used entry of a full cache.
Insert(c, key, value) ==
    (IF Len(c) >= CacheMaxsize THEN Tail(c) ELSE c) \o <<[key |-> key, value |-> value]>>

\* The record of a finished call: its key, the backend calls it issued, the value
\* it returned and how it came by it: from the cache ("cache"), from the reply the
\* retry loop parsed ("returned"), or from the except clause of the internal
\* method ("fallback"); "raised" is a direct call of the retry loop that raised.
Finished(key, n, value, how) == [key |-> key, backend |-> n, value |-> value, how |-> how]

\* An except clause that returns an empty dict.
FallbackEmpty(type) == EmptyDict

\* The fallback of the except clause of the internal method.
Fallback(type) == IF type = "security" THEN SecurityFallback ELSE QualityFallback

\* The events of a trace.
Waited      == [e |-> "wait"]
Called(ok)  == [e |-> "backend", ok |-> ok]
Slept(secs) == [e |-> "sleep", secs |-> secs]

\* The record of an analyzer operation and of what it did.
Did(op, outcome) == [op |-> op, did |-> outcome]
NoOp == [op |-> "none", did |-> NoResult]

\* analyze_security(code) / analyze_quality(code) is called. A cached key returns
\* at once. For any other, the internal method formats its prompt inside its try
\* statement: when format raises, the except clause returns the fallback, which
\* the cache stores; otherwise the retry loop is entered.
CallAnalysis(code, type) ==
    /\ pc = "idle"
    /\ Len(log) < MaxCalls
    /\ trace' = << >>
    /\ LET key    == <<code, type>>
           i      == CacheIndex(key)
           prompt == Format(PromptOf(type), [code |-> code])
       IN  IF i > 0
           THEN /\ cache' = Touch(cache, i)
                /\ log' = Append(log, Finished(key, 0, cache[i].value, "cache"))
                /\ last' = Did(type, Return(cache[i].value))
                /\ UNCHANGED <<pc, cur>>
           ELSE IF prompt.outcome = "raise"
           THEN /\ cache' = Insert(cache, key, Fallback(type))
                /\ log' = Append(log, Finished(key, 0, Fallback(type), "fallback"))
                /\ last' = Did(type, Return(Fallback(type)))
                /\ UNCHANGED <<pc, cur>>
           ELSE /\ pc' = "attempt"
                /\ cur' = [key |-> key, attempt |-> 0, backend |-> 0]
                /\ UNCHANGED <<cache, log, last>>
    /\ UNCHANGED <<rlVars, anVars, utVars, rvVars, chVars>>

\* _analyze_with_retry(prompt) is called on its own.
CallRetry(prompt) ==
    /\ pc = "idle"
    /\ Len(log) < MaxCalls
    /\ pc' = "attempt"
    /\ cur' = [key |-> <<prompt, "retry">>, attempt |-> 0, backend |-> 0]
    /\ trace' = << >>
    /\ UNCHANGED <<cache, log, last>>
    /\ UNCHANGED <<rlVars, anVars, utVars, rvVars, chVars>>

\* The internal method returns value: the cache stores it and the caller receives it.
Finish(value, how) ==
    /\ pc' = "idle"
    /\ cache' = Insert(cache, cur.key, value)
    /\ log' = Append(log, Finished(cur.key, cur.backend + 1, value, how))
    /\ last' = Did(cur.key[2], Return(value))
    /\ cur' = NoCur

\* The retry loop called on its own ends with outcome.
FinishRetry(outcome) ==
    /\ pc' = "idle"
    /\ log' = Append(log, Finished(cur.key, cur.backend + 1,
                                   IF outcome.outcome = "return" THEN outcome.value ELSE Null,
                                   IF outcome.outcome = "return" THEN "returned" ELSE "raised"))
    /\ last' = Did("retry", outcome)
    /\ cur' = NoCur
    /\ UNCHANGED cache

\* One turn of the retry loop: wait_if_needed, the backend call, and then the
\* return of the parsed reply, or the backoff sleep, or, after the last attempt,
\* the raise (that the internal method turns into its fallback).
Attempt(r) ==
    /\ pc = "attempt"
    /\ UNCHANGED <<anVars, utVars, rvVars, chVars>>
    /\ LET outcome == AttemptResult(r)
           final   == cur.attempt = MaxRetries - 1
           events  == <<Waited, Called(r.k # "raise")>>
       IN  IF outcome.outcome = "return" \/ final
           THEN /\ LimiterStep(clock, 0)
                /\ trace' = trace \o events
                /\ IF cur.key[2] \in AnalysisTypes
                   THEN Finish(InternalResult(cur.key[2], cur.key[1], outcome),
                               IF InternalFails(cur.key[2], cur.key[1], outcome)
                               THEN "fallback" ELSE "returned")
                   ELSE FinishRetry(outcome)
           ELSE /\ LimiterStep(clock, Backoff(cur.attempt))
                /\ trace' = trace \o events \o <<Slept(Backoff(cur.attempt))>>
                /\ cur' = [cur EXCEPT !.attempt = @ + 1, !.backend = @ + 1]
                /\ UNCHANGED <<pc, cache, log, last>>

CaInit ==
    /\ pc = "idle"
    /\ cur = NoCur
    /\ cache = << >>
    /\ log = << >>
    /\ trace = << >>
    /\ last = NoOp

\* The calls of analyze_security and analyze_quality: format raises for both
\* prompts, so no call enters the retry loop.
CaNext == \E code \in Codes, type \in AnalysisTypes : CallAnalysis(code, type)

\* The codes of a long session: code i is the text ToString(i).
CodeNo(i) == ToString(i)

\* The cache after analyze_security was called with the codes 1, 2, ... up to
\* one less than the cache holds, each a miss.
Filled == [i \in 1..(CacheMaxsize - 1) |->
             [key |-> <<CodeNo(i), "security">>, value |-> SecurityFallback]]

\* The analyzer after those calls; log follows the calls made from here on.
FilledInit ==
    /\ pc = "idle"
    /\ cur = NoCur
    /\ cache = Filled
    /\ log = << >>
    /\ trace = << >>
    /\ last = Did("security", Return(SecurityFallback))

\* The codes of the calls that follow: the two least recently used ones and two
\* that are new.
LaterCodes == {CodeNo(1), CodeNo(2), CodeNo(CacheMaxsize), CodeNo(CacheMaxsize + 1)}

FilledNext == \E code \in LaterCodes, type \in AnalysisTypes : CallAnalysis(code, type)

\* The calls of _analyze_with_retry.
RetryNext ==
    \/ CallRetry("prompt")
    \/ \E r \in AttemptReplies : Attempt(r)

(***************************************************************************)
(* The operations of one call: quick_analyze (code_analyzer.py 218-238),   *)
(* get_code_review_response (251-277) and analyze_code (279-365)           *)
(***************************************************************************)

\* What the backend does for the call of such an operation.
OpReplies ==
    {[k |-> "raise"], [k |-> "none"]}
    \cup { [k |-> "text", text |-> x] : x \in {Chars(1), <<Doc(EmptyDict)>>} }

\* json.loads(completion.choices[0].message.content) of line 228.
QuickLoads(r) ==
    IF r.k = "none"
    THEN Raise("TypeError", <<Lit("the JSON object must be str, bytes or bytearray, not NoneType")>>)
    ELSE JsonLoads(r.text)

\* The handler of quick_analyze written as "except json.JSONDecodeError".
QuickCatchesDecodeErrorOnly(exc) == "JSONDecodeError" \in Bases(exc)

\* except Exception (line 229)
QuickCatches(exc) == "Exception" \in Bases(exc)

\* The dict of lines 231-238.
QuickFallback ==
    MkDict([suggestions |-> EmptyList,
            metrics |-> MkDict([complexity_score |-> Str(<<Lit("N/A")>>),
                                readability      |-> Str(<<Lit("N/A")>>),
                                maintainability  |-> Str(<<Lit("N/A")>>)])])

\* The backend call of quick_analyze and the load of its reply (lines 222-228).
QuickCall(r) == IF Create(r).outcome = "raise" THEN Create(r) ELSE QuickLoads(r)

\* The body of the try statement of quick_analyze after wait_if_needed: the
\* arguments of the backend call are evaluated first, the prompt among them.
QuickBody(code, r) ==
    LET prompt == Format(QuickPrompt, [code |-> code])
    IN  IF prompt.outcome = "raise" THEN prompt ELSE QuickCall(r)

\* What quick_analyze(code) does when its try statement ends with body.
QuickResult(body) ==
    IF body.outcome = "raise" /\ QuickCatches(body.exc)
    THEN Return(QuickFallback)
    ELSE body

\* The backend calls of quick_analyze: none when format raised.
QuickCalls(code, r) ==
    IF Format(QuickPrompt, [code |-> code]).outcome = "raise"
    THEN << >>
    ELSE <<Called(r.k # "raise")>>

\* quick_analyze(code) when the backend would do r.
QuickAnalyze(code, r) ==
    /\ pc = "idle"
    /\ LimiterStep(clock, 0)
    /\ trace' = <<Waited>> \o QuickCalls(code, r)
    /\ last' = Did("quick_analyze", QuickResult(QuickBody(code, r)))
    /\ UNCHANGED <<cache, pc, cur, log>>
    /\ UNCHANGED <<anVars, utVars, rvVars, chVars>>

\* What get_code_review_response returns: the content of the reply, or the
\* message of the except clause (line 277).
ResponseOf(r) ==
    IF Create(r).outcome = "raise"
    THEN Return(Str(<<Lit("Error generating response: ")>> \o Create(r).msg))
    ELSE IF r.k = "none" THEN Return(Null)
    ELSE Return(Str(r.text))

\* get_code_review_response(question) when the backend does r.
GetCodeReviewResponse(question, r) ==
    /\ pc = "idle"
    /\ LimiterStep(clock, 0)
    /\ trace' = <<Waited, Called(r.k # "raise")>>
    /\ last' = Did("get_code_review_response", ResponseOf(r))
    /\ UNCHANGED <<cache, pc, cur, log>>
    /\ UNCHANGED <<anVars, utVars, rvVars, chVars>>

\* analyze_code(code) when the backend does r: the backend call is the first
\* statement of its try, and the method never touches self.rate_limiter.
CallAnalyzeCode(code, r) ==
    /\ pc = "idle"
    /\ trace' = <<Called(r.k # "raise")>>
    /\ last' = Did("analyze_code", AnalyzeCode(r))
    /\ UNCHANGED <<cache, pc, cur, log>>
    /\ UNCHANGED <<rlVars, anVars, utVars, rvVars, chVars>>

\* The public operations of one CodeAnalyzer.
OpNext ==
    \/ \E code \in Codes, type \in AnalysisTypes : CallAnalysis(code, type)
    \/ \E code \in Codes, r \in OpReplies : QuickAnalyze(code, r)
    \/ \E r \in OpReplies : GetCodeReviewResponse("question", r)
    \/ \E code \in Codes, r \in OpReplies : CallAnalyzeCode(code, r)

(***************************************************************************)
(* The chat of render_chat_interface (app.py 165-191)                      *)
(***************************************************************************)

\* The most chat inputs the model follows.
MaxExchanges == 11

\* What the user types.
Prompts == {"question1", "question2"}

\* {"role": role, "content": content}
Turn(role, content) == [role |-> role, content |-> content]

\* st.session_state.analyzer.process_chat(prompt): the analyzer is a CodeAnalyzer,
\* which defines no process_chat, so the attribute lookup raises.
ProcessChat(prompt) ==
    Raise("AttributeError", <<Lit("'CodeAnalyzer' object has no attribute 'process_chat'")>>)

\* The history after the try statement of lines 184-191: the assistant turn is
\* appended when process_chat returned; an exception is shown by st.error.
AfterResponse(history, response) ==
    IF response.outcome = "return"
    THEN Append(history, Turn("assistant", response.value))
    ELSE history

\* The user submits prompt in st.chat_input: the user turn is appended, then the
\* response is processed.
ChatInput(prompt) ==
    /\ Len(SelectSeq(chat_history, LAMBDA x : x.role = "user")) < MaxExchanges
    /\ chat_history' = AfterResponse(Append(chat_history, Turn("user", prompt)),
                                     ProcessChat(prompt))
    /\ UNCHANGED <<rlVars, anVars, utVars, rvVars, caVars>>

\* if "chat_history" not in st.session_state: st.session_state.chat_history = []
ChInit == chat_history = << >>

ChNext == \E prompt \in Prompts : ChatInput(prompt)

(***************************************************************************)
(* sanitize_filename (utils.py 34-71)                                      *)
(***************************************************************************)

\* A text is the list of its characters. "ctl" stands for a control character
\* of \x00-\x1F, "?" for the characters < > : " | ? * as well.
Plain    == {"a", " ", ".", "_"}
Special  == {"/", "\\", "?", "ctl"}

\* The longest filename of the enumeration.
MaxNameLen == 4

\* len(ext) > 10
ExtLimit == 10

\* max_length: int = 100
DefaultMaxLength == 100

\* s with every character of set replaced by "_".
ReplaceAll(s, set) == [i \in 1..Len(s) |-> IF s[i] \in set THEN "_" ELSE s[i]]

\* re.sub(r'_+', '_', s): of a run of underscores the first one stays.
Collapse(s) ==
    LET kept == {i \in 1..Len(s) : ~(i > 1 /\ s[i] = "_" /\ s[i - 1] = "_")}
    IN  [k \in 1..Cardinality(kept) |->
            s[CHOOSE i \in kept : Cardinality({j \in kept : j < i}) = k - 1]]

\* s.strip('_ '): from the first to the last character that is neither.
StripUnderscores(s) ==
    LET solid == {i \in 1..Len(s) : s[i] \notin {"_", " "}}
    IN  IF solid = {} THEN << >>
        ELSE SubSeq(s, CHOOSE i \in solid : \A j \in solid : i <= j,
                       CHOOSE i \in solid : \A j \in solid : j <= i)

\* "unnamed_file"
UnnamedFile == <<"u", "n", "n", "a", "m", "e", "d", "_", "f", "i", "l", "e">>

\* The last place of character c in s, 0 when there is none.
LastIndex(s, c) ==
    IF \E i \in 1..Len(s) : s[i] = c
    THEN CHOOSE i \in 1..Len(s) : s[i] = c /\ \A j \in (i + 1)..Len(s) : s[j] # c
    ELSE 0

\* os.path.splitext(p): the extension starts at the last dot, unless that dot is
\* before the last separator or has only dots between the separator and itself.
SplitExt(p) ==
    LET dot == LastIndex(p, ".")
        sep == LastIndex(p, "/")
    IN  IF dot > sep /\ \E i \in (sep + 1)..(dot - 1) : p[i] # "."
        THEN [name |-> SubSeq(p, 1, dot - 1), ext |-> SubSeq(p, dot, Len(p))]
        ELSE [name |-> p, ext |-> << >>]

\* max_name_length (lines 67-69): at least 1.
NameLength(max_length, ext) ==
    IF max_length - Len(ext) < 1 THEN 1 ELSE max_length - Len(ext)

\* The filename after lines 46-59: separators and special characters replaced,
\* underscores collapsed and stripped, "unnamed_file" for an empty name.
Cleaned(filename) ==
    LET stripped == StripUnderscores(Collapse(ReplaceAll(ReplaceAll(filename, {"\\", "/"}),
                                                          Special)))
    IN  IF stripped = << >> THEN UnnamedFile ELSE stripped

\* Lines 61-71: the name cut to its length, and the extension, which counts as a
\* part of the name when it is longer than 10 characters.
Limited(filename, max_length) ==
    LET parts == SplitExt(filename)
        name  == IF Len(parts.ext) > ExtLimit THEN filename ELSE parts.name
        ext   == IF Len(parts.ext) > ExtLimit THEN << >> ELSE parts.ext
    IN  Prefix(name, NameLength(max_length, ext)) \o ext

\* sanitize_filename(filename, max_length)
SanitizeFilename(filename, max_length) == Limited(Cleaned(filename), max_length)

\* The filenames a call is made with: every text of up to MaxNameLen characters,
\* and names with an extension of 10 and of 11 characters and a name longer than
\* the default max_length.
Letters(n) == [i \in 1..n |-> "a"]
Filenames ==
    UNION { [1..n -> Plain \cup Special] : n \in 0..MaxNameLen }
    \cup { <<"a", ".">> \o Letters(n) : n \in {ExtLimit - 1, ExtLimit} }
    \cup { Letters(DefaultMaxLength + 1) \o <<".", "a">> }

MaxLengths == 1..(MaxNameLen + 1) \cup {DefaultMaxLength}

NoOutput == <<"none">>

\* No call of sanitize_filename is followed.
UtIdle == sanitized = [filename |-> << >>, max_length |-> 0, out |-> NoOutput]

\* A call of sanitize_filename is about to be made.
UtInit ==
    \E f \in Filenames, m \in MaxLengths :
        sanitized = [filename |-> f, max_length |-> m, out |-> NoOutput]

\* The call returns.
Sanitize ==
    /\ sanitized.out = NoOutput
    /\ sanitized' = [sanitized EXCEPT
                        !.out = SanitizeFilename(sanitized.filename, sanitized.max_length)]
    /\ UNCHANGED <<rlVars, anVars, rvVars, caVars, chVars>>

UtNext == Sanitize

(***************************************************************************)
(* The specifications, one for each part of the program                    *)
(***************************************************************************)

InitIdle == RLInit /\ AnIdle /\ RvInit /\ CaInit /\ ChInit /\ UtIdle

SpecRL == InitIdle /\ [][RLNext]_vars

SpecThreads == InitIdle /\ [][ThNext]_vars

InitAnalyze == RLInit /\ AnInit /\ RvInit /\ CaInit /\ ChInit /\ UtIdle

SpecAnalyze == InitAnalyze /\ [][AnNext]_vars

SpecReview == InitIdle /\ [][RvNext]_vars

SpecCache == InitIdle /\ [][CaNext]_vars

InitFilled == RLInit /\ AnIdle /\ RvInit /\ FilledInit /\ ChInit /\ UtIdle

SpecFilled == InitFilled /\ [][FilledNext]_vars

SpecRetry == InitIdle /\ [][RetryNext]_vars

SpecOps == InitIdle /\ [][OpNext]_vars

SpecChat == InitIdle /\ [][ChNext]_vars

InitSanitize == RLInit /\ AnIdle /\ RvInit /\ CaInit /\ ChInit /\ UtInit

SpecSanitize == InitSanitize /\ [][UtNext]_vars

(***************************************************************************)
(* RateLimiter: the claims                                                 *)
(***************************************************************************)

\* C1: no more than N calls are released within any interval of 60 seconds
\* (released holds exactly the releases of the 60 seconds that end at the latest).
C1_AtMostNPerWindow == Len(released) <= CallsPerMinute

(***************************************************************************)
(* analyze_code: the claims                                                *)
(***************************************************************************)

Analyzed == result # NoResult

Returned == Analyzed /\ result.outcome = "return" /\ result.value.t = "dict"

IsSuccess ==
    /\ Returned
    /\ DOMAIN result.value.d = {"success", "analysis"}
    /\ result.value.d["success"] = Bool(TRUE)

IsFailure ==
    /\ Returned
    /\ DOMAIN result.value.d = {"success", "error"}
    /\ result.value.d["success"] = Bool(FALSE)
    /\ result.value.d["error"].t = "str"

Delivered == reply.k = "text"

ParsesToJson == Delivered /\ JsonLoads(reply.text).outcome = "return"

ParsesToMapping == ParsesToJson /\ JsonLoads(reply.text).value.t = "dict"

\* The JSON object of the reply, and the analysis of a successful result.
ReplyObject == JsonLoads(reply.text).value
Analysis    == result.value.d["analysis"]

\* C5: analyze_code never raises: whatever the backend does it returns a mapping
\* that is success=true with an analysis or success=false with an error message.
C5_NeverRaises == Analyzed => (IsSuccess \/ IsFailure)

\* The backend raised a transport exception and analyze_code returned a failure.
C5_Witness == Analyzed /\ reply.k = "raise" /\ IsFailure

\* C6: for a delivered reply analyze_code fails only when the reply is no JSON or
\* no mapping: every reply that parses to a mapping yields success=true.
C6_FailsOnlyOnUnparseable == (Analyzed /\ Delivered) => (IsSuccess <=> ParsesToMapping)

HasAllFields(a) ==
    /\ a.t = "dict"
    /\ {"issues", "metrics", "suggestions", "summary"} \subseteq DOMAIN a.d
    /\ a.d["metrics"].t = "dict"
    /\ {"complexity", "maintainability", "security_score"} \subseteq DOMAIN a.d["metrics"].d

DefaultAnalysis ==
    Dict([k \in {"issues", "metrics", "suggestions", "summary"} |->
        CASE k = "issues"      -> EmptyList
          [] k = "metrics"     -> Dict([n \in {"complexity", "maintainability",
                                               "security_score"} |-> Num(50)])
          [] k = "suggestions" -> EmptyList
          [] OTHER             -> Str(<< >>)])

\* C7: for every reply that parses to a JSON object the analysis holds issues, the
\* three metrics, suggestions and summary, and the reply {} yields the defaults.
C7_AllFieldsPresent ==
    (Analyzed /\ ParsesToMapping) =>
        /\ IsSuccess
        /\ HasAllFields(Analysis)
        /\ (ReplyObject = EmptyDict => Analysis = DefaultAnalysis)

Clamp(v) == IF v < 0 THEN 0 ELSE IF v > 100 THEN 100 ELSE v

MetricNames == {"complexity", "maintainability", "security_score"}

\* The reply carries a number for metric n.
Sent(n) ==
    /\ "metrics" \in DOMAIN ReplyObject.d
    /\ ReplyObject.d["metrics"].t = "dict"
    /\ n \in DOMAIN ReplyObject.d["metrics"].d
    /\ ReplyObject.d["metrics"].d[n].t = "num"

\* C8: in every successful result each metric lies in 0..100, a value outside the
\* range having been clamped to the nearest bound.
C8_MetricsClamped ==
    IsSuccess =>
        \A n \in MetricNames :
            /\ Analysis.d["metrics"].d[n].t = "num"
            /\ Analysis.d["metrics"].d[n].n \in 0..100
            /\ Sent(n) => Analysis.d["metrics"].d[n].n = Clamp(ReplyObject.d["metrics"].d[n].n)

\* The characters of the reply that a message quotes.
Quoted(message) == SelectSeq(message, LAMBDA x : x.c # "lit")

\* C9: for a reply that is no valid JSON analyze_code returns success=false, and its
\* error message quotes at most the first 100 characters of the reply text (the text
\* as analyze_code reads it, surrounding whitespace stripped).
C9_ErrorQuotesFirst100 ==
    (Analyzed /\ Delivered /\ ~ParsesToJson) =>
        /\ IsFailure
        /\ Len(Quoted(result.value.d["error"].s)) <= SnippetLen
        /\ Quoted(result.value.d["error"].s) = Prefix(Strip(reply.text), SnippetLen)

\* A reply of more than 100 characters of prose was cut to its first 100.
C9_Witness ==
    /\ Analyzed /\ Delivered /\ ~ParsesToJson
    /\ Len(Strip(reply.text)) > SnippetLen
    /\ IsFailure
    /\ Len(Quoted(result.value.d["error"].s)) = SnippetLen

(***************************************************************************)
(* perform_code_review: the claims                                         *)
(***************************************************************************)

\* The rows of a table that belong to review id.
RowsOf(table, id) == SelectSeq(table, LAMBDA x : x.review = id)

\* C2: persisting a result is atomic: after a call that failed while storing, a
\* fresh read sees no Issue row and no Metric row of that review, and the review
\* is not COMPLETED.
C2_FailedStoreLeavesNothing ==
    lastCall.outcome = "failed" =>
        /\ RowsOf(issueRows, lastCall.review) = << >>
        /\ RowsOf(metricRows, lastCall.review) = << >>
        /\ \A i \in 1..Len(reviews) :
              reviews[i].id = lastCall.review => reviews[i].status # "COMPLETED"

\* The latest call stored the result of a successful analysis.
StoredSuccess ==
    /\ lastCall.outcome = "stored"
    /\ lastCall.analysis.d["success"] = Bool(TRUE)

\* C10: storing the result of a successful analysis yields a COMPLETED review, one
\* Issue row per issue of the result with its severity and line number, and one
\* Metric row holding the result's three metrics.
C10_StoredMatchesResult ==
    StoredSuccess =>
        LET a     == lastCall.analysis.d["analysis"]
            irows == RowsOf(issueRows, lastCall.review)
            mrows == RowsOf(metricRows, lastCall.review)
        IN  /\ reviews[lastCall.review].status = "COMPLETED"
            /\ a.d["issues"].t = "list" =>
                  /\ Len(irows) = Len(a.d["issues"].l)
                  /\ \A i \in 1..Len(irows) :
                        /\ irows[i].severity = a.d["issues"].l[i].d["severity"]
                        /\ irows[i].line_number = a.d["issues"].l[i].d["line_number"]
            /\ Len(mrows) = 1
            /\ \A n \in MetricNames : mrows[1][n] = a.d["metrics"].d[n]

\* The reviews that have reached a terminal status.
Terminal == {i \in 1..Len(reviews) : reviews[i].status \in {"COMPLETED", "FAILED"}}

\* C11: a review that has reached a terminal status (COMPLETED or FAILED) has
\* exactly one ReviewHistory row with action STATUS_CHANGE.
C11_OneStatusChangeRow ==
    \A i \in Terminal :
        Len(SelectSeq(RowsOf(historyRows, reviews[i].id),
                      LAMBDA h : h.action = "STATUS_CHANGE")) = 1

\* C12: when analyze_code reported a failure (success false), the review stored
\* for that call has status FAILED, not COMPLETED.
C12_FailureStoredAsFailed ==
    (/\ lastCall.outcome = "stored"
     /\ lastCall.analysis.d["success"] = Bool(FALSE))
        => reviews[lastCall.review].status = "FAILED"

\* The smaller of two numbers.
Min(a, b) == IF a < b THEN a ELSE b

SamePair(i, j) ==
    /\ i < j
    /\ log[i].key = log[j].key
    /\ log[i].key[2] = "security"

\* C3: two analyze_security calls with the same code issue at most one backend
\* call in total, the second being served from the cache, and return equal results.
C3_AtMostOneBackendCall ==
    \A i, j \in 1..Len(log) :
        SamePair(i, j) =>
            /\ log[i].backend + log[j].backend <= 1
            /\ log[j].how = "cache"
            /\ log[i].value = log[j].value

\* analyze_security was called twice with one code, the second call right after
\* the first.
C3_Witness ==
    \E i, j \in 1..Len(log) : SamePair(i, j) /\ j = i + 1 /\ log[i].how # "cache"

\* What the internal method returns for a reply that reports nothing found.
NothingFound(type, code) ==
    InternalResult(type, code, Return(IF type = "security" THEN NoVulnDoc ELSE IssuesDoc))

\* C14: a call of analyze_security or analyze_quality whose analysis failed returns
\* a result that differs from that of a successful analysis that found nothing.
C14_FailureDistinguishable ==
    \A i \in 1..Len(log) :
        log[i].how = "fallback" => log[i].value # NothingFound(log[i].key[2], log[i].key[1])

\* The keys of the cache, and the keys used so far: those of Filled and of log.
Cached == {cache[i].key : i \in 1..Len(cache)}
Used   == {Filled[i].key : i \in 1..Len(Filled)} \cup {log[i].key : i \in 1..Len(log)}

\* When key was last used: a call of log counts from Len(Filled) on, and a key
\* used before only by its place in Filled.
LastUse(key) ==
    IF \E i \in 1..Len(log) : log[i].key = key
    THEN Len(Filled) + CHOOSE i \in 1..Len(log) :
                          /\ log[i].key = key
                          /\ \A j \in (i + 1)..Len(log) : log[j].key # key
    ELSE CHOOSE i \in 1..Len(Filled) : Filled[i].key = key

\* C18: the cache never holds more than 100 entries; it holds every key used so
\* far while they are at most 100, and after that the 100 most recently used
\* ones, a hit counting as a use: every key it has dropped was last used before
\* every key it holds.
C18_KeepsMostRecentlyUsed ==
    /\ Len(cache) <= CacheMaxsize
    /\ Len(cache) = Min(Cardinality(Used), CacheMaxsize)
    /\ Cached \subseteq Used
    /\ \A gone \in Used \ Cached : \A kept \in Cached : LastUse(gone) < LastUse(kept)

\* After a hit on the least recently used key the cache was full and a new key
\* came in: the key dropped is the next one, and the key that was hit is kept.
C18_Witness ==
    /\ Cardinality(Used) > CacheMaxsize
    /\ <<CodeNo(1), "security">> \in Cached
    /\ <<CodeNo(2), "security">> \notin Cached

\* C15: every backend call of a public analyzer operation comes right after a call
\* of wait_if_needed made by that operation.
C15_WaitBeforeEveryCall ==
    \A k \in 1..Len(trace) :
        trace[k].e = "backend" => (k > 1 /\ trace[k - 1] = Waited)

\* The backend calls of a trace.
BackendCalls(t) == SelectSeq(t, LAMBDA x : x.e = "backend")

\* C16: when a backend call of analyze_code, quick_analyze or
\* get_code_review_response fails in transport, the operation calls the backend
\* again before it reports the failure or returns its fallback.
C16_TransportFailureRetried ==
    (/\ last.op \in {"analyze_code", "quick_analyze", "get_code_review_response"}
     /\ BackendCalls(trace) # << >>
     /\ BackendCalls(trace)[1] = Called(FALSE))
        => Len(BackendCalls(trace)) > 1

\* C17: quick_analyze never raises, and it returns the fallback (no suggestions,
\* the three metrics "N/A") whenever no backend call of it succeeded, and for
\* every reply that json.loads rejects.
C17_QuickFallsBack ==
    /\ last.op = "quick_analyze" =>
          /\ last.did.outcome = "return"
          /\ (\A k \in 1..Len(trace) : trace[k] # Called(TRUE))
                 => last.did.value = QuickFallback
    /\ \A r \in OpReplies :
          QuickCall(r).outcome = "raise" => QuickResult(QuickCall(r)) = Return(QuickFallback)

\* quick_analyze failed and returned the fallback.
C17_Witness ==
    /\ last.op = "quick_analyze"
    /\ BackendCalls(trace) = << >>
    /\ last.did = Return(QuickFallback)

\* C4: the chat history holds at most 10 turns.
C4_AtMostTenTurns == Len(chat_history) <= 10

\* C19: after every chat exchange each user turn of the history is followed by
\* exactly one assistant turn, so the turns alternate, user first, and the history
\* does not end with a user turn.
C19_EveryUserTurnAnswered ==
    /\ Len(chat_history) % 2 = 0
    /\ \A i \in 1..Len(chat_history) :
          chat_history[i].role = IF i % 2 = 1 THEN "user" ELSE "assistant"

\* How often stamp occurs in a list.
Count(list, stamp) == Len(SelectSeq(list, LAMBDA x : x = stamp))

\* C20: when two threads call wait_if_needed of one limiter, under every
\* interleaving no timestamp is lost (a stamp that a call appended is in the list
\* for as long as it is less than 60 seconds old) and no more than N calls are
\* released within 60 seconds.
C20_NoStampLost ==
    /\ \A i \in 1..Len(recorded) :
          clock - recorded[i] < Window
              => Count(calls, recorded[i]) >= Count(recorded, recorded[i])
    /\ Len(released) <= CallsPerMinute

(***************************************************************************)
(* The reviews' lifecycle, the issues' line numbers: the claims            *)
(***************************************************************************)

\* C21: a review is created with status IN_PROGRESS, its status changes only from
\* IN_PROGRESS to COMPLETED or to FAILED, and its code_content never changes.
C21_StatusTransitions ==
    [][\A i \in 1..Len(reviews') :
          IF i > Len(reviews)
          THEN reviews'[i].status = "IN_PROGRESS"
          ELSE /\ reviews'[i].code_content = reviews[i].code_content
               /\ \/ reviews'[i].status = reviews[i].status
                  \/ /\ reviews[i].status = "IN_PROGRESS"
                     /\ reviews'[i].status \in {"COMPLETED", "FAILED"}]_vars

\* The key that the result of an analysis of a type is read by.
ResultKey(type) == IF type = "security" THEN "vulnerabilities" ELSE "issues"

\* C22: analyze_security returns a mapping that contains the key 'vulnerabilities'
\* and analyze_quality returns a mapping that contains the key 'issues'.
C22_ResultKeyPresent ==
    \A i \in 1..Len(log) :
        /\ log[i].value.t = "dict"
        /\ ResultKey(log[i].key[2]) \in DOMAIN log[i].value.d

\* analyze_security and analyze_quality have both been called for a code that
\* was not cached.
C22_Witness ==
    \E i, j \in 1..Len(log) :
        /\ log[i].key[2] = "security" /\ log[i].how # "cache"
        /\ log[j].key[2] = "quality" /\ log[j].how # "cache"

\* The line number an issue of the model output carries, 0 when it carries none.
LineOf(issue) ==
    IF issue.t = "dict" /\ "line_number" \in DOMAIN issue.d /\ issue.d["line_number"].t = "num"
    THEN issue.d["line_number"].n
    ELSE 0

\* C23: every stored Issue has a positive line number, and an issue of a stored
\* result whose line number is 0 or missing is stored with line number 1.
C23_PositiveLineNumbers ==
    /\ \A i \in 1..Len(issueRows) :
          /\ issueRows[i].line_number.t = "num"
          /\ issueRows[i].line_number.n >= 1
    /\ (StoredSuccess /\ lastCall.analysis.d["analysis"].d["issues"].t = "list") =>
          LET issues == lastCall.analysis.d["analysis"].d["issues"].l
              irows  == RowsOf(issueRows, lastCall.review)
          IN  \A k \in 1..Len(issues) :
                  LineOf(issues[k]) < 1 =>
                      /\ Len(irows) >= k
                      /\ irows[k].line_number = Num(1)

(***************************************************************************)
(* sanitize_filename: the claim                                            *)
(***************************************************************************)

SanitizeReturned == sanitized.out # NoOutput

\* s ends with the text e.
EndsWith(s, e) == Len(s) >= Len(e) /\ SubSeq(s, Len(s) - Len(e) + 1, Len(s)) = e

\* The returned name is not empty.
SanitizedNonEmpty == SanitizeReturned => sanitized.out # << >>

\* The returned name has at most max_length characters.
SanitizedWithinLength == SanitizeReturned => Len(sanitized.out) <= sanitized.max_length

\* The returned name has no separator, special or control character.
SanitizedClean == SanitizeReturned => \A i \in 1..Len(sanitized.out) : sanitized.out[i] \notin Special

\* An extension of at most 10 characters, itself made of letters, is kept.
SanitizedKeepsExtension ==
    LET ext == SplitExt(sanitized.filename).ext
    IN  (/\ SanitizeReturned
         /\ ext # << >>
         /\ Len(ext) <= ExtLimit
         /\ \A i \in 2..Len(ext) : ext[i] = "a")
        => EndsWith(sanitized.out, ext)

\* C24: for every filename and every max_length, sanitize_filename returns a
\* non-empty name of at most max_length characters that contains none of the
\* characters < > : " / \ | ? * or control characters and keeps the original
\* extension when that extension is at most 10 characters long.
C24_SanitizedName ==
    /\ SanitizedNonEmpty
    /\ SanitizedWithinLength
    /\ SanitizedClean
    /\ SanitizedKeepsExtension

(***************************************************************************)
(* The retry loop: the claims                                              *)
(***************************************************************************)

\* The number of backend calls among the first i events of the trace.
CallsBefore(i) == Len(BackendCalls(SubSeq(trace, 1, i - 1)))

\* The trace of a call of _analyze_with_retry: at most max_retries backend calls;
\* a backend call that another event follows is call k < max_retries - 1 and is
\* followed by a sleep of 2^k seconds; a sleep is followed by the next attempt
\* while the call runs; the call ends right after a backend call, and when it
\* ends with a raise that call was call max_retries - 1 and the error is its own.
RetryTrace ==
    /\ Len(BackendCalls(trace)) <= MaxRetries
    /\ \A i \in 1..Len(trace) :
          (trace[i].e = "backend" /\ i < Len(trace))
              => /\ CallsBefore(i) < MaxRetries - 1
                 /\ trace[i + 1] = Slept(2 ^ CallsBefore(i))
    /\ \A i \in 1..Len(trace) :
          trace[i].e = "sleep"
              => /\ i > 1 /\ trace[i - 1].e = "backend"
                 /\ pc = "attempt" \/ i < Len(trace)
    /\ (pc = "idle" /\ trace # << >>)
          => /\ trace[Len(trace)].e = "backend"
             /\ last.op = "retry"
             /\ last.did.outcome = "raise"
                   => /\ Len(BackendCalls(trace)) = MaxRetries
                      /\ last.did.exc = "APIError" <=> trace[Len(trace)] = Called(FALSE)

\* An attempt that succeeds ends the call with the parsed reply.
ReturnsAtFirstSuccess ==
    \A r \in AttemptReplies :
        (Attempt(r) /\ AttemptResult(r).outcome = "return")
            => /\ pc' = "idle"
               /\ last' = Did("retry", AttemptResult(r))

\* C25: _analyze_with_retry makes at most max_retries (3) backend attempts,
\* returns at the first attempt that succeeds without any further attempt, sleeps
\* 2^k seconds after failed attempt k (counted from 0) before attempt k+1, does
\* not sleep after the final failed attempt, and then raises that attempt's error.
C25_RetryLoop == []RetryTrace /\ [][ReturnsAtFirstSuccess]_vars

\* Three attempts failed, with sleeps of 1 and 2 seconds between them, and the
\* call raised.
C25_Witness ==
    /\ pc = "idle"
    /\ last.op = "retry"
    /\ last.did.outcome = "raise"
    /\ Len(BackendCalls(trace)) = MaxRetries
    /\ \E i, j \in 1..Len(trace) : trace[i] = Slept(1) /\ trace[j] = Slept(2)

\* C26: a reply that the backend delivered but that is not parseable JSON is not
\* retried: no backend call of the request follows it, and the call ends with
\* the failure.
C26_ParseFailureNotRetried ==
    \A i \in 1..Len(trace) :
        trace[i] = Called(TRUE)
            => /\ \A j \in (i + 1)..Len(trace) : trace[j].e # "backend"
               /\ pc = "idle"

(***************************************************************************)
(* wait_if_needed, its sleep and its timestamp: the claims                 *)
(***************************************************************************)

\* C27: the timestamp wait_if_needed records for a call is taken after any wait:
\* it is the time at which the call is released, never earlier than the end of
\* the sleep (the latest stamp of calls is the latest release).
C27_StampTakenAfterWait ==
    calls # << >> =>
        /\ released # << >>
        /\ calls[Len(calls)] = released[Len(released)]

\* The latest call of wait_if_needed: the time it entered at (the stamp it
\* appended), the timestamps it kept, and how long it slept.
EnteredAt == calls[Len(calls)]
KeptStamps == SubSeq(calls, 1, Len(calls) - 1)
SleptFor == clock - EnteredAt

\* After a call: the stamps kept are less than 60 seconds old; with N of them the
\* call slept 60 - (now - oldest) seconds, not a negative amount, with fewer it
\* did not sleep; and the last call of a burst of N+1 calls at one time t is
\* released at t + 60.
SleepOfLatestCall ==
    calls # << >> =>
        /\ \A i \in 1..Len(KeptStamps) : EnteredAt - KeptStamps[i] < 60
        /\ Len(KeptStamps) = CallsPerMinute
              => /\ SleptFor = 60 - (EnteredAt - KeptStamps[1])
                 /\ SleptFor >= 0
        /\ Len(KeptStamps) < CallsPerMinute => SleptFor = 0
        /\ (/\ Len(calls) = CallsPerMinute + 1
             /\ \A i \in 1..Len(calls) : calls[i] = EnteredAt)
              => clock = calls[1] + 60

\* A call keeps every timestamp less than 60 seconds old and no other.
EvictsOldStamps ==
    calls' # << >> =>
        SubSeq(calls', 1, Len(calls') - 1) =
            SelectSeq(calls, LAMBDA c : calls'[Len(calls')] - c < 60)

\* C28: wait_if_needed first evicts the timestamps that are 60 seconds old or
\* older; if N timestamps then remain it sleeps exactly 60 - (now - oldest
\* remaining timestamp) seconds, never a negative amount, and if fewer than N
\* remain it does not sleep; so in a burst of N+1 immediate calls the last one
\* waits until the oldest call leaves the window.
C28_SleepsUntilOldestLeaves == []SleepOfLatestCall /\ [][EvictsOldStamps]_vars

\* A burst of N+1 calls at one time, the last of them released 60 seconds later,
\* after an earlier call had been evicted.
C28_Witness ==
    /\ Len(calls) = CallsPerMinute + 1
    /\ \A i \in 1..Len(calls) : calls[i] = EnteredAt
    /\ EnteredAt > 0
    /\ clock = EnteredAt + 60

(***************************************************************************)
(* The cached fallback: the claim                                          *)
(***************************************************************************)

\* The value the cache c holds for key.
CachedValue(c, key) == (CHOOSE e \in {c[i] : i \in 1..Len(c)} : e.key = key).value

\* The call that a step finishes.
Latest == log'[Len(log')]

\* A call that ends with the fallback leaves it in the cache under its key, and a
\* call whose key the cache holds with a fallback returns that fallback from the
\* cache without a backend call.
FallbackIsCached ==
    Len(log') = Len(log) + 1 =>
        /\ Latest.how = "fallback"
              => /\ \E i \in 1..Len(cache') : cache'[i].key = Latest.key
                 /\ CachedValue(cache', Latest.key) = Latest.value
        /\ ((\E i \in 1..Len(cache) : cache[i].key = Latest.key)
                /\ CachedValue(cache, Latest.key) \in {SecurityFallback, QualityFallback})
              => /\ Latest.how = "cache"
                 /\ Latest.backend = 0
                 /\ Latest.value = CachedValue(cache, Latest.key)

\* C29: the fallback of a failed analyze_security(code) or analyze_quality(code)
\* is cached like a successful result: later calls with the same code return the
\* same fallback without a backend call for as long as the entry stays in the
\* cache.
C29_FallbackServedFromCache == [][FallbackIsCached]_vars

\* analyze_quality failed for a code and a later call with that code was served
\* from the cache, while another key's entry had been evicted.
C29_Witness ==
    /\ \E i, j \in 1..Len(log) :
          /\ i < j
          /\ log[i].key = log[j].key
          /\ log[i].key[2] = "quality"
          /\ log[i].how = "fallback"
          /\ log[j].how = "cache"
          /\ log[j].value = QualityFallback
    /\ <<CodeNo(1), "security">> \notin Cached

====
